---------------------------- MODULE Spec2Model ----------------------------
(***************************************************************************)
(* Presence / breathing detection from Wi-Fi CSI amplitude frames.         *)
(*                                                                         *)
(* The module models                                                       *)
(*   - the detector's pure operations (detect_presence,                    *)
(*     extract_breathing_signal, estimate_breathing_rate) and the          *)
(*     signal_filter helpers (normalize_signal, bandpass_filter,           *)
(*     extract_breathing_features) as operators,                           *)
(*   - CSICapture.capture_csi and PresenceDetector.run_continuous_detection*)
(*     as a state machine whose steps can be hit by a KeyboardInterrupt.   *)
(*                                                                         *)
(* Numbers.  Amplitudes are integers in units of 1/AmpScale, so that every *)
(* mean and variance the code computes is an exact rational [num, den].    *)
(* Floating-point rounding is not modelled.  Time is counted in ticks of   *)
(* the packet period (time.sleep(0.05)).                                   *)
(***************************************************************************)
EXTENDS Integers, Sequences, FiniteSets

VARIABLES
    \* ---- PresenceDetector.run_continuous_detection / CSICapture ----
    pc,                \* position of the controller
    capture_duration,  \* self.capture_duration, seconds
    interval,          \* interval argument of run_continuous_detection, seconds
    cycle,             \* number of cycles started so far
    elapsed,           \* time.time() - start_time of the running cycle, ticks
    scene,             \* what the frame source observes during this capture
    csi_data,          \* self.capture.csi_data, the capture buffer
    window,            \* the local csi_data of the loop: what capture_csi returned
    verdict,           \* the locals presence, breathing, variance, breathing_rate
    events,            \* calls made while processing the current cycle
    printed,           \* the lines reported so far, oldest first
    sleep_time,        \* the last sleep_time computed at line 151
    interrupts,        \* KeyboardInterrupts delivered so far
    interrupted,       \* whether an interrupt arrived during the running cycle
    \* ---- PresenceDetector attributes ----
    presence_threshold,   \* self.presence_threshold
    breathing_threshold,  \* self.breathing_threshold
    \* ---- the numeric library ----
    response,          \* which band-pass response this behaviour assumes
    \* ---- direct calls of the detector's operations ----
    input,             \* the argument of the call
    call,              \* the operation called, "none" before the call
    result,            \* what the call returned
    extracted,         \* what each extract_breathing_signal call returned
    \* ---- CSICapture and the files it saves to and loads from ----
    is_array,          \* self.csi_data is a numpy array (after load_csi_data)
    disk               \* what each path of the file system holds

vars == <<pc, capture_duration, interval, cycle, elapsed, scene, csi_data,
          window, verdict, events, printed, sleep_time, interrupts,
          interrupted, presence_threshold, breathing_threshold, response,
          input, call, result, extracted, is_array, disk>>

ctlVars == <<pc, capture_duration, interval, cycle, elapsed, scene, csi_data,
             window, verdict, events, printed, sleep_time, interrupts,
             interrupted>>

apiVars == <<input, call, result, extracted>>

fileVars == <<is_array, disk>>

---------------------------------------------------------------------------
(* Bounds of the model *)

MaxSamples == 30        \* longest frame handed directly to an operation
MaxSignalLen == 16      \* longest breathing signal handed to the estimator
MaxPeriod == 5          \* longest period of a periodic breathing signal
MaxPulses == 3          \* most pulses of a sparse breathing signal
MaxDuration == 2        \* largest capture_duration, seconds
MaxCycles == 2          \* cycles the controller is followed for
MaxInterrupts == 1      \* KeyboardInterrupts the operator sends
MaxProcessTicks == 1    \* longest time classifying and analysing a frame takes
MaxExtractions == 2     \* extract_breathing_signal calls made on one frame
MaxFileSamples == 2     \* longest frame saved to or loaded from a file

---------------------------------------------------------------------------
(* Program constants *)

AmpScale == 10               \* amplitudes are in units of 1/AmpScale
AmpLow == 5                  \* np.random.uniform(0.5, 1.5): 0.5
AmpHigh == 15                \* np.random.uniform(0.5, 1.5): 1.5
DefaultInterval == 2         \* run_continuous_detection(self, interval=2)
TicksPerSecond == 20         \* time.sleep(0.05): 20 packets per second
SamplingRate == 20           \* "20 Hz sampling rate", 60.0 / (avg / 20.0)
PeakDistance == 5            \* find_peaks(..., distance=5)
MinRateSamples == 10         \* len(breathing_signal) < 10
MinPeaks == 2                \* len(peaks) < 2
FilterOrder == 4             \* signal.butter(4, ...)

\* signal.filtfilt's default padlen is 3 * max(len(a), len(b)); a band-pass
\* butter of order N has 2N+1 coefficients.  filtfilt raises ValueError
\* unless the input is longer than padlen.
PadLen == 3 * (2 * FilterOrder + 1)

---------------------------------------------------------------------------
(* Exact rationals *)

RECURSIVE GCD(_, _)
GCD(a, b) == IF b = 0 THEN a ELSE GCD(b, a % b)

\* n/d in lowest terms, for n >= 0 and d > 0
Rat(n, d) == LET g == GCD(n, d) IN [num |-> n \div g, den |-> d \div g]

\* a > b, a = b for positive denominators
RatGt(a, b) == a.num * b.den > b.num * a.den

RatLt(a, b) == a.num * b.den < b.num * a.den

RatEq(a, b) == a.num * b.den = b.num * a.den

Zero == Rat(0, 1)

\* __init__: self.presence_threshold = 0.15 = 3/20 and
\* self.breathing_threshold = 0.05 = 1/20
InitThresholds ==
    /\ presence_threshold = Rat(3, 20)
    /\ breathing_threshold = Rat(1, 20)

\* No method of PresenceDetector assigns either threshold.
ThresholdsAdapted ==
    /\ presence_threshold' = breathing_threshold
    /\ breathing_threshold' = breathing_threshold

ThresholdsUnchanged ==
    /\ presence_threshold' = presence_threshold
    /\ breathing_threshold' = breathing_threshold

---------------------------------------------------------------------------
(* Sequences of integers *)

RECURSIVE Sum(_)
Sum(s) == IF s = <<>> THEN 0 ELSE Head(s) + Sum(Tail(s))

SumSq(s) == Sum([i \in 1..Len(s) |-> s[i] * s[i]])

Second(a, b) == b

\* Python's max(a, b)
Max(a, b) == IF a >= b THEN a ELSE b

\* np.diff
Diff(s) == [i \in 1..(Len(s) - 1) |-> s[i + 1] - s[i]]

\* np.var(x) of a non-empty series, ddof = 0: mean(|x - mean(x)|^2).
\* With n = Len(x): x[i] - mean = (n*x[i] - Sum(x)) / n, so the variance is
\* Sum((n*x[i] - Sum(x))^2) / n^3.
Centred(x) == LET s == Sum(x) IN [i \in 1..Len(x) |-> Len(x) * x[i] - s]

Var(x) == Rat(SumSq(Centred(x)), Len(x) * Len(x) * Len(x))

RatAdd(a, b) == Rat(a.num * b.den + b.num * a.den, a.den * b.den)

RECURSIVE RatSum(_)
RatSum(rs) == IF rs = <<>> THEN Zero ELSE RatAdd(Head(rs), RatSum(Tail(rs)))

\* np.mean of a non-empty sequence of rationals
MeanOfRats(rs) == LET t == RatSum(rs) IN Rat(t.num, t.den * Len(rs))

---------------------------------------------------------------------------
(* Frames and signals *)

\* A frame (numpy matrix samples x subcarriers) is a sequence of rows, a row
\* a sequence of amplitudes.  The models' frames have two subcarriers.
Amps == {AmpLow, (AmpLow + AmpHigh) \div 2, AmpHigh}

Rows == {<<a, b>> : a, b \in Amps}

\* The frame of n samples that alternates the rows r1, r2, r1, ...
Alternating(r1, r2, n) == [i \in 1..n |-> IF i % 2 = 1 THEN r1 ELSE r2]

\* csi_data[:, j]
Column(csi, j) == [i \in 1..Len(csi) |-> csi[i][j]]

NumSubcarriers(csi) == Len(csi[1])

\* A one-dimensional float array: x holds the samples; nan says that every
\* sample is NaN (the only NaN arrays the code produces), x then only keeps
\* the length.
Signal(xs) == [nan |-> FALSE, x |-> xs]

NaNSignal(n) == [nan |-> TRUE, x |-> [i \in 1..n |-> 0]]

EmptySignal == Signal(<<>>)

IsZero(sig) == ~sig.nan /\ \A i \in 1..Len(sig.x) : sig.x[i] = 0

---------------------------------------------------------------------------
(* PresenceDetector.detect_presence *)

\* np.var(csi_data, axis=0): the variance of each subcarrier over the window,
\* in amplitude units squared
SubcarrierVariance(csi) ==
    [j \in 1..NumSubcarriers(csi) |->
        LET v == Var(Column(csi, j))
        IN  Rat(v.num, v.den * AmpScale * AmpScale)]

detect_presence_ge(csi) ==
    IF Len(csi) = 0
    THEN [presence |-> FALSE, breathing |-> FALSE, variance |-> Zero]
    ELSE LET mean_variance == MeanOfRats(SubcarrierVariance(csi))
         IN  [presence  |-> ~RatLt(mean_variance, presence_threshold),
              breathing |-> RatGt(mean_variance, breathing_threshold)
                            /\ RatLt(mean_variance, presence_threshold),
              variance  |-> mean_variance]

\* The body of detect_presence for a detector whose thresholds are pt, bt
ClassifyBelow(csi, pt, bt) ==
    IF Len(csi) = 0
    THEN [presence |-> FALSE, breathing |-> FALSE, variance |-> Zero]
    ELSE LET mean_variance == MeanOfRats(SubcarrierVariance(csi))
         IN  [presence  |-> RatLt(mean_variance, pt),
              breathing |-> RatGt(mean_variance, bt) /\ RatLt(mean_variance, pt),
              variance  |-> mean_variance]

ClassifyOverlap(csi, pt, bt) ==
    IF Len(csi) = 0
    THEN [presence |-> FALSE, breathing |-> FALSE, variance |-> Zero]
    ELSE LET mean_variance == MeanOfRats(SubcarrierVariance(csi))
         IN  [presence  |-> RatGt(mean_variance, pt),
              breathing |-> RatGt(mean_variance, bt),
              variance  |-> mean_variance]

Classify(csi, pt, bt) ==
    IF Len(csi) = 0
    THEN [presence |-> FALSE, breathing |-> FALSE, variance |-> Zero]
    ELSE LET mean_variance == MeanOfRats(SubcarrierVariance(csi))
         IN  [presence  |-> RatGt(mean_variance, pt),
              breathing |-> RatGt(mean_variance, bt) /\ RatLt(mean_variance, pt),
              variance  |-> mean_variance]

detect_presence(csi) == Classify(csi, presence_threshold, breathing_threshold)

---------------------------------------------------------------------------
(* Normalisation and the band-pass filter *)

\* np.mean(csi_data, axis=1), kept as the row sums: the mean signal is
\* RowSums / NumSubcarriers, and the scale cancels in the normalisation
RowSums(csi) == [i \in 1..Len(csi) |-> Sum(csi[i])]

\* np.std(x) = 0 exactly when the variance is 0
StdIsZero(x) == Var(x).num = 0

\* (mean_signal - np.mean(mean_signal)) / np.std(mean_signal), unguarded:
\* with a zero standard deviation every sample is 0/0 = NaN.  The samples of
\* the result are Centred(x) up to the positive factor 1/(n*std).
NormalizeUnguarded(x) ==
    IF StdIsZero(x)
    THEN [value  |-> NaNSignal(Len(x)),
          events |-> {"np.std", "divide_by_std", "divide_by_zero"}]
    ELSE [value  |-> Signal(Centred(x)),
          events |-> {"np.std", "divide_by_std"}]

\* signal_filter.normalize_signal
normalize_signal(x) ==
    IF ~StdIsZero(x)
    THEN [value |-> Signal(Centred(x)), events |-> {"np.std", "divide_by_std"}]
    ELSE [value |-> Signal(Centred(x)), events |-> {"np.std"}]

\* The band-pass responses a behaviour may assume: the period, in samples,
\* of the oscillation the filter lets through.
Responses == {3, 7}

\* The Butterworth response on a non-degenerate input is not computed; the
\* filter's output is then a train of unit pulses of period p, of the
\* input's length.
Waveform(p, n) == Signal([i \in 1..n |-> IF i % p = 2 THEN 1 ELSE 0])

\* signal.filtfilt(b, a, x).  What is exact: the ValueError on an input no
\* longer than padlen, an output of the input's length, NaN in gives NaN
\* out, and (the filter being linear) zeros in give zeros out.
filtfilt(sig) ==
    IF Len(sig.x) <= PadLen
    THEN [raised |-> TRUE, value |-> EmptySignal]
    ELSE [raised |-> FALSE,
          value  |-> IF sig.nan THEN NaNSignal(Len(sig.x))
                     ELSE IF IsZero(sig) THEN sig
                     ELSE Waveform(response, Len(sig.x))]

\* signal_filter.bandpass_filter, and the same two calls inlined in
\* extract_breathing_signal: butter, then filtfilt
bandpass_filter(sig) ==
    LET y == filtfilt(sig)
    IN  [raised |-> y.raised, value |-> y.value,
         events |-> {"butter", "filtfilt"}]

\* PresenceDetector.extract_breathing_signal
extract_breathing_signal_stateful(csi) ==
    IF Len(csi) = 0
    THEN [raised |-> FALSE, value |-> EmptySignal, events |-> {}]
    ELSE LET mean_signal == NormalizeUnguarded(RowSums(csi))
             filtered    == bandpass_filter(mean_signal.value)
         IN  [raised |-> filtered.raised,
              value  |-> IF call = "none" THEN filtered.value
                         ELSE NaNSignal(Len(filtered.value.x)),
              events |-> mean_signal.events \cup filtered.events]

extract_breathing_signal(csi) ==
    IF Len(csi) = 0
    THEN [raised |-> FALSE, value |-> EmptySignal, events |-> {}]
    ELSE LET mean_signal == NormalizeUnguarded(RowSums(csi))
             filtered    == bandpass_filter(mean_signal.value)
         IN  [raised |-> filtered.raised,
              value  |-> filtered.value,
              events |-> mean_signal.events \cup filtered.events]

---------------------------------------------------------------------------
(* scipy.signal.find_peaks(x, distance=d) *)

\* x[i] < x[j] on 1-based positions; every comparison with NaN is false
Less(sig, i, j) == ~sig.nan /\ sig.x[i] < sig.x[j]

\* The last position of the flat run that starts at position i
RECURSIVE RunEnd(_, _)
RunEnd(sig, i) ==
    IF i < Len(sig.x) /\ sig.x[i + 1] = sig.x[i] THEN RunEnd(sig, i + 1) ELSE i

\* The local maxima: each flat run l..r that rises from its left neighbour,
\* falls to its right neighbour and touches neither end of the array,
\* reported at its middle (l + r) // 2.  Indices are numpy's, 0-based.
LocalMaxima(sig) ==
    LET n == Len(sig.x)
    IN  {((l - 1) + (RunEnd(sig, l) - 1)) \div 2 :
            l \in {i \in 2..(n - 1) :
                      /\ Less(sig, i - 1, i)
                      /\ RunEnd(sig, i) < n
                      /\ Less(sig, RunEnd(sig, i) + 1, RunEnd(sig, i))}}

\* The order in which the distance rule visits the peaks: highest first,
\* and among equal heights the rightmost first.
Outranks(sig, p, q) ==
    \/ sig.x[p + 1] > sig.x[q + 1]
    \/ sig.x[p + 1] = sig.x[q + 1] /\ p > q

\* A visited peak that is still kept removes every other peak closer than d.
RECURSIVE SelectByDistance(_, _, _, _)
SelectByDistance(sig, todo, keep, d) ==
    IF todo = {} THEN keep
    ELSE LET j == CHOOSE p \in todo : \A q \in todo \ {p} : Outranks(sig, p, q)
             near == {k \in keep : k # j /\ k - j < d /\ j - k < d}
         IN  IF j \in keep
             THEN SelectByDistance(sig, todo \ {j}, keep \ near, d)
             ELSE SelectByDistance(sig, todo \ {j}, keep, d)

\* The set as an increasing sequence
RECURSIVE Sorted(_)
Sorted(S) ==
    IF S = {} THEN <<>>
    ELSE LET m == CHOOSE a \in S : \A b \in S : a <= b
         IN  <<m>> \o Sorted(S \ {m})

find_peaks(sig, d) ==
    LET maxima == LocalMaxima(sig)
    IN  Sorted(SelectByDistance(sig, maxima, maxima, d))

---------------------------------------------------------------------------
(* PresenceDetector.estimate_breathing_rate *)

\* 60.0 / (avg_time_diff / 20.0), with avg_time_diff = np.mean(time_diffs)
RateFromDiffsNoFs(time_diffs) ==
    LET avg_time_diff == Rat(Sum(time_diffs), Len(time_diffs))
    IN  IF avg_time_diff.num > 0
        THEN Rat(60 * avg_time_diff.den, avg_time_diff.num)
        ELSE Zero

RateFromDiffs(time_diffs) ==
    LET avg_time_diff == Rat(Sum(time_diffs), Len(time_diffs))
    IN  IF avg_time_diff.num > 0
        THEN Rat(60 * SamplingRate * avg_time_diff.den, avg_time_diff.num)
        ELSE Zero

estimate_breathing_rate_unguarded(sig) ==
    LET peaks == find_peaks(sig, PeakDistance)
    IN  IF Len(peaks) < MinPeaks
        THEN [bpm |-> Zero, events |-> {"find_peaks"}]
        ELSE [bpm |-> RateFromDiffs(Diff(peaks)), events |-> {"find_peaks"}]

estimate_breathing_rate(sig) ==
    IF Len(sig.x) < MinRateSamples
    THEN [bpm |-> Zero, events |-> {}]
    ELSE LET peaks == find_peaks(sig, PeakDistance)
         IN  IF Len(peaks) < MinPeaks
             THEN [bpm |-> Zero, events |-> {"find_peaks"}]
             ELSE [bpm |-> RateFromDiffs(Diff(peaks)),
                   events |-> {"find_peaks"}]

---------------------------------------------------------------------------
(* signal_filter.extract_breathing_features *)

\* np.mean(csi_data, axis=1) on the empty array np.array([]) raises (there
\* is no axis 1), and so does filtfilt on an empty series.
extract_breathing_features(csi) ==
    IF Len(csi) = 0
    THEN [raised |-> TRUE, events |-> {}, breathing_signal |-> EmptySignal,
          variance |-> Zero, num_peaks |-> 0, peak_indices |-> <<>>]
    ELSE LET mean_signal == normalize_signal(RowSums(csi))
             filtered    == bandpass_filter(mean_signal.value)
             peaks       == find_peaks(filtered.value, PeakDistance)
         IN  IF filtered.raised
             THEN [raised |-> TRUE,
                   events |-> mean_signal.events \cup filtered.events,
                   breathing_signal |-> EmptySignal,
                   variance |-> Zero, num_peaks |-> 0, peak_indices |-> <<>>]
             ELSE [raised |-> FALSE,
                   events |-> mean_signal.events \cup filtered.events
                              \cup {"find_peaks"},
                   breathing_signal |-> filtered.value,
                   variance |-> Var(filtered.value.x),
                   num_peaks |-> Len(peaks),
                   peak_indices |-> peaks]

---------------------------------------------------------------------------
(* CSICapture.capture_csi and PresenceDetector.run_continuous_detection *)

NoVerdict ==
    [presence |-> FALSE, breathing |-> FALSE, variance |-> Zero,
     breathing_rate |-> Zero]

NoInput == [kind |-> "none", csi |-> <<>>, sig |-> EmptySignal]

\* The file names used: one with numpy's suffix and one without
Paths == {"csi.npy", "csi"}

\* What a path holds: nothing, a file of zero bytes, or a saved array
Absent == [kind |-> "absent", data |-> <<>>]

EmptyFile == [kind |-> "empty", data |-> <<>>]

ArrayFile(frame) == [kind |-> "array", data |-> frame]

\* CSICapture.__init__: self.csi_data = [], a list; no file is touched
NoFiles ==
    /\ is_array = FALSE
    /\ disk = [p \in Paths |-> Absent]

\* What the frame source observes during one capture: two rows that the
\* packets alternate between (equal rows: a still scene).
\* A still scene, breathing seen in phase and in antiphase by the two
\* subcarriers, and motion.
Scenes ==
    LET lo  == AmpLow
        mid == (AmpLow + AmpHigh) \div 2
        hi  == AmpHigh
    IN  {<<<<lo, lo>>, <<lo, lo>>>>,
         <<<<lo, lo>>, <<mid, mid>>>>,
         <<<<lo, mid>>, <<mid, lo>>>>,
         <<<<lo, lo>>, <<hi, hi>>>>}

\* capture_csi line 29: self.csi_data = []
KeepBuffer(buf) == buf

ResetBuffer(buf) == <<>>

\* The returned frame holds fewer samples than the capture duration asks for
CutShort == Len(window) < capture_duration * TicksPerSecond

\* if presence or breathing:
AnalyseAlways(presence, breathing) == TRUE

NeedsBreathingAnalysis(presence, breathing) == presence \/ breathing

\* The status of the reported line
Status(v) ==
    IF v.presence THEN "motion"
    ELSE IF v.breathing THEN "breathing"
    ELSE "no presence"

Init ==
    /\ pc = "start"
    /\ capture_duration \in 0..MaxDuration
    /\ interval = DefaultInterval
    /\ cycle = 0
    /\ elapsed = 0
    /\ scene = <<>>
    /\ csi_data = <<>>
    /\ window = <<>>
    /\ verdict = NoVerdict
    /\ events = {}
    /\ printed = <<>>
    /\ sleep_time = 0
    /\ interrupts = 0
    /\ interrupted = FALSE
    /\ InitThresholds
    /\ response \in Responses
    /\ input = NoInput
    /\ call = "none"
    /\ result = [none |-> TRUE]
    /\ extracted = <<>>
    /\ NoFiles

\* main lines 191-193 and run_continuous_detection lines 119-122: without
\* --test, the banner, then the try block is entered.
StartDetection ==
    /\ pc = "start"
    /\ pc' = "loop_top"
    /\ UNCHANGED <<capture_duration, interval, cycle, elapsed, scene, csi_data,
                   window, verdict, events, printed, sleep_time, interrupts,
                   interrupted, response, apiVars, fileVars>>
    /\ ThresholdsUnchanged

\* Lines 124-127 and capture_csi lines 28-32: start_time is taken, capture_csi
\* is called, it resets the buffer and takes its own start_time.  The locals
\* of the previous iteration are dead (each is assigned before it is read
\* again) and are cleared here.
BeginCycle ==
    /\ pc = "loop_top"
    /\ cycle < MaxCycles
    /\ cycle' = cycle + 1
    /\ elapsed' = 0
    /\ csi_data' = ResetBuffer(csi_data)
    /\ scene' \in Scenes
    /\ window' = <<>>
    /\ verdict' = NoVerdict
    /\ events' = {}
    /\ sleep_time' = 0
    /\ interrupted' = FALSE
    /\ pc' = "capturing"
    /\ UNCHANGED <<capture_duration, interval, printed, interrupts, response,
                   apiVars, fileVars>>
    /\ ThresholdsUnchanged

\* capture_csi lines 35-41, the loop condition true: one packet is parsed
\* and appended, then time.sleep(0.05).
CapturePacket ==
    /\ pc \in {"capturing", "test_capturing"}
    /\ elapsed < capture_duration * TicksPerSecond
    /\ csi_data' = Append(csi_data, scene[(Len(csi_data) % 2) + 1])
    /\ elapsed' = elapsed + 1
    /\ UNCHANGED <<pc, capture_duration, interval, cycle, scene, window,
                   verdict, events, printed, sleep_time, interrupts,
                   interrupted, response, apiVars, fileVars>>
    /\ ThresholdsUnchanged

\* capture_csi lines 35 and 46, the loop condition false: the buffer is
\* returned and becomes the caller's csi_data.
CaptureReturn ==
    /\ pc \in {"capturing", "test_capturing"}
    /\ ~(elapsed < capture_duration * TicksPerSecond)
    /\ window' = csi_data
    /\ pc' = IF pc = "capturing" THEN "process" ELSE "test_process"
    /\ UNCHANGED <<capture_duration, interval, cycle, elapsed, scene, csi_data,
                   verdict, events, printed, sleep_time, interrupts,
                   interrupted, response, apiVars, fileVars>>
    /\ ThresholdsUnchanged

\* capture_csi lines 43-46: a KeyboardInterrupt raised inside the capture
\* loop is caught there; capture_csi prints a message and returns what the
\* buffer holds.
InterruptCapturePropagates ==
    /\ pc \in {"capturing", "test_capturing"}
    /\ interrupts < MaxInterrupts
    /\ interrupts' = interrupts + 1
    /\ interrupted' = TRUE
    /\ pc' = IF pc = "capturing" THEN "stopped" ELSE "killed"
    /\ UNCHANGED <<capture_duration, interval, cycle, elapsed, scene, csi_data,
                   window, verdict, events, printed, sleep_time, response,
                   apiVars, fileVars>>
    /\ ThresholdsUnchanged

InterruptCapture ==
    /\ pc \in {"capturing", "test_capturing"}
    /\ interrupts < MaxInterrupts
    /\ interrupts' = interrupts + 1
    /\ interrupted' = TRUE
    /\ window' = csi_data
    /\ pc' = IF pc = "capturing" THEN "process" ELSE "test_process"
    /\ UNCHANGED <<capture_duration, interval, cycle, elapsed, scene, csi_data,
                   verdict, events, printed, sleep_time, response, apiVars, fileVars>>
    /\ ThresholdsUnchanged

\* Lines 130-136: classify the frame and, if presence or breathing is
\* flagged, extract the breathing signal and estimate the rate.  A
\* ValueError raised by the extractor is not caught by the loop's
\* except KeyboardInterrupt and leaves run_continuous_detection.  The
\* computation takes d ticks of the clock.
Process ==
    /\ pc = "process"
    /\ LET v == detect_presence(window)
           s == extract_breathing_signal(window)
           r == estimate_breathing_rate(s.value)
       IN  IF ~NeedsBreathingAnalysis(v.presence, v.breathing)
           THEN /\ verdict' = [presence |-> v.presence, breathing |-> v.breathing,
                               variance |-> v.variance, breathing_rate |-> Zero]
                /\ events' = {"detect_presence"}
                /\ pc' = "report"
           ELSE IF s.raised
           THEN /\ verdict' = [presence |-> v.presence, breathing |-> v.breathing,
                               variance |-> v.variance, breathing_rate |-> Zero]
                /\ events' = {"detect_presence", "extract_breathing_signal"}
                             \cup s.events
                /\ pc' = "crashed"
           ELSE /\ verdict' = [presence |-> v.presence, breathing |-> v.breathing,
                               variance |-> v.variance, breathing_rate |-> r.bpm]
                /\ events' = {"detect_presence", "extract_breathing_signal",
                              "estimate_breathing_rate"}
                             \cup s.events \cup r.events
                /\ pc' = "report"
    /\ \E d \in 0..MaxProcessTicks : elapsed' = elapsed + d
    /\ UNCHANGED <<capture_duration, interval, cycle, scene, csi_data,
                   window, printed, sleep_time, interrupts, interrupted,
                   response, apiVars, fileVars>>
    /\ ThresholdsUnchanged

\* Lines 139-147: the verdict is printed.  A line records its cycle, its
\* status, and whether its frame was cut short by an interrupt during the
\* capture (the figures of the line are those of verdict).
Report ==
    /\ pc = "report"
    /\ printed' = Append(printed,
                         [cycle   |-> cycle,
                          status  |-> Status(verdict),
                          partial |-> interrupted /\ CutShort])
    /\ pc' = "pace"
    /\ UNCHANGED <<capture_duration, interval, cycle, elapsed, scene, csi_data,
                   window, verdict, events, sleep_time, interrupts,
                   interrupted, response, apiVars, fileVars>>
    /\ ThresholdsUnchanged

\* Lines 150-151: sleep_time = max(0, interval - elapsed)
Pace ==
    /\ pc = "pace"
    /\ sleep_time' = Max(0, interval * TicksPerSecond - elapsed)
    /\ pc' = "sleeping"
    /\ UNCHANGED <<capture_duration, interval, cycle, elapsed, scene, csi_data,
                   window, verdict, events, printed, interrupts, interrupted,
                   response, apiVars, fileVars>>
    /\ ThresholdsUnchanged

\* Line 152: time.sleep(sleep_time) returns
Wake ==
    /\ pc = "sleeping"
    /\ elapsed' = elapsed + sleep_time
    /\ pc' = "loop_top"
    /\ UNCHANGED <<capture_duration, interval, cycle, scene, csi_data, window,
                   verdict, events, printed, sleep_time, interrupts,
                   interrupted, response, apiVars, fileVars>>
    /\ ThresholdsUnchanged

\* Lines 154-155: a KeyboardInterrupt raised anywhere in the loop outside
\* capture_csi's own try block ends run_continuous_detection.
InterruptLoop ==
    /\ pc \in {"loop_top", "process", "report", "pace", "sleeping"}
    /\ interrupts < MaxInterrupts
    /\ interrupts' = interrupts + 1
    /\ interrupted' = (pc # "loop_top")
    /\ pc' = "stopped"
    /\ UNCHANGED <<capture_duration, interval, cycle, elapsed, scene, csi_data,
                   window, verdict, events, printed, sleep_time, response,
                   apiVars, fileVars>>
    /\ ThresholdsUnchanged

\* main lines 175-178, with --test: the banner, then capture_csi is called,
\* resets the buffer and takes its start_time.
StartTest ==
    /\ pc = "start"
    /\ cycle' = cycle + 1
    /\ elapsed' = 0
    /\ csi_data' = ResetBuffer(csi_data)
    /\ scene' \in Scenes
    /\ pc' = "test_capturing"
    /\ UNCHANGED <<capture_duration, interval, window, verdict, events, printed,
                   sleep_time, interrupts, interrupted, response, apiVars, fileVars>>
    /\ ThresholdsUnchanged

\* main lines 179-185: classify the frame; the breathing signal is extracted
\* and the rate estimated only in the elif breathing branch.  A ValueError
\* raised by the extractor leaves main before any verdict is printed.
TestProcess ==
    /\ pc = "test_process"
    /\ LET v == detect_presence(window)
           s == extract_breathing_signal(window)
           r == estimate_breathing_rate(s.value)
       IN  IF v.presence \/ ~v.breathing
           THEN /\ verdict' = [presence |-> v.presence, breathing |-> v.breathing,
                               variance |-> v.variance, breathing_rate |-> Zero]
                /\ events' = {"detect_presence"}
                /\ pc' = "test_report"
           ELSE IF s.raised
           THEN /\ verdict' = [presence |-> v.presence, breathing |-> v.breathing,
                               variance |-> v.variance, breathing_rate |-> Zero]
                /\ events' = {"detect_presence", "extract_breathing_signal"}
                             \cup s.events
                /\ pc' = "test_crashed"
           ELSE /\ verdict' = [presence |-> v.presence, breathing |-> v.breathing,
                               variance |-> v.variance, breathing_rate |-> r.bpm]
                /\ events' = {"detect_presence", "extract_breathing_signal",
                              "estimate_breathing_rate"}
                             \cup s.events \cup r.events
                /\ pc' = "test_report"
    /\ \E d \in 0..MaxProcessTicks : elapsed' = elapsed + d
    /\ UNCHANGED <<capture_duration, interval, cycle, scene, csi_data,
                   window, printed, sleep_time, interrupts, interrupted,
                   response, apiVars, fileVars>>
    /\ ThresholdsUnchanged

\* main lines 181-190: the verdict and the variance score are printed, and
\* main returns.
TestReport ==
    /\ pc = "test_report"
    /\ printed' = Append(printed,
                         [cycle   |-> cycle,
                          status  |-> Status(verdict),
                          partial |-> interrupted /\ CutShort])
    /\ pc' = "done"
    /\ UNCHANGED <<capture_duration, interval, cycle, elapsed, scene, csi_data,
                   window, verdict, events, sleep_time, interrupts,
                   interrupted, response, apiVars, fileVars>>
    /\ ThresholdsUnchanged

\* A KeyboardInterrupt raised in main outside capture_csi is caught nowhere
\* and ends the process.
InterruptTest ==
    /\ pc \in {"test_process", "test_report"}
    /\ interrupts < MaxInterrupts
    /\ interrupts' = interrupts + 1
    /\ interrupted' = TRUE
    /\ pc' = "killed"
    /\ UNCHANGED <<capture_duration, interval, cycle, elapsed, scene, csi_data,
                   window, verdict, events, printed, sleep_time, response,
                   apiVars, fileVars>>
    /\ ThresholdsUnchanged

Next ==
    \/ StartDetection
    \/ BeginCycle
    \/ CapturePacket
    \/ CaptureReturn
    \/ InterruptCapture
    \/ Process
    \/ Report
    \/ Pace
    \/ Wake
    \/ InterruptLoop
    \/ StartTest
    \/ TestProcess
    \/ TestReport
    \/ InterruptTest

Spec == Init /\ [][Next]_vars

---------------------------------------------------------------------------
(* Claims about the continuous loop, checked under Spec *)

\* C1: once an interrupt has been delivered, at whatever point of a cycle,
\* no new cycle (no new capture_csi call) is started.
C1_InterruptEndsLoop == [][interrupts > 0 => cycle' = cycle]_vars

\* C2: no verdict is reported for a cycle during which the interrupt
\* arrived: in particular no printed line is the verdict of a frame that an
\* interrupt cut short during capture_csi.
C2_NoVerdictForInterruptedCycle ==
    \A i \in 1..Len(printed) : ~printed[i].partial

\* C3: the loop is left only by cancellation: with no interrupt delivered,
\* whatever frame the source delivers, no exception raised by the extractor
\* or the estimator escapes the loop.
C3_LoopLeftOnlyByCancellation ==
    interrupts = 0 => pc \notin {"crashed", "stopped"}

\* C6: on an empty frame detect_presence returns (False, False, 0.0), and
\* the cycle invokes neither the band-pass extractor nor the rate estimator.
C6_EmptyFrameNeutralVerdict ==
    ("detect_presence" \in events /\ window = <<>>)
    => (verdict = NoVerdict /\ events = {"detect_presence"})

\* C6 witness: a cycle classified an empty frame and is about to report it.
C6_Witness ==
    /\ pc = "report"
    /\ window = <<>>
    /\ "detect_presence" \in events
    /\ verdict = NoVerdict

\* C12: the sleep at the end of a cycle is never negative, is 0 when the
\* cycle has already taken interval or longer, and otherwise ends exactly
\* interval after the cycle started; so when the next cycle is about to
\* start, at least interval has passed since this one started.
C12_SleepPacesCycles ==
    /\ sleep_time >= 0
    /\ pc = "sleeping"
       => /\ elapsed >= interval * TicksPerSecond => sleep_time = 0
          /\ elapsed < interval * TicksPerSecond
             => elapsed + sleep_time = interval * TicksPerSecond
    /\ (pc = "loop_top" /\ cycle > 0)
       => /\ elapsed >= interval * TicksPerSecond
          /\ sleep_time > 0 => elapsed = interval * TicksPerSecond

\* C12 witness: a cycle that took less than interval has slept, and the next
\* one is about to start exactly interval after it started.
C12_Witness ==
    /\ pc = "loop_top"
    /\ cycle > 0
    /\ sleep_time > 0
    /\ elapsed = interval * TicksPerSecond

\* The frame is the first n packets of the scene of the running capture
FromThisCapture(frame) ==
    /\ Len(frame) <= capture_duration * TicksPerSecond
    /\ frame = Alternating(scene[1], scene[2], Len(frame))

\* C13: cycles are strictly sequential.  The i-th line reported is the
\* verdict of the i-th capture; a capture starts only from the top of the
\* loop, with the verdicts of all earlier cycles reported and the sleep
\* over; and the frame a verdict is computed from holds samples of the
\* running capture_csi call only.
C13_CyclesSequential ==
    /\ [](/\ \A i \in 1..Len(printed) : printed[i].cycle = i
          /\ pc \in {"capturing", "process", "report"}
             => Len(printed) = cycle - 1
          /\ pc \in {"pace", "sleeping", "loop_top"} => Len(printed) = cycle
          /\ cycle > 0 => FromThisCapture(csi_data) /\ FromThisCapture(window))
    /\ [][cycle' # cycle
           => /\ pc \in {"loop_top", "start"}
              /\ Len(printed) = cycle
              /\ csi_data' = <<>>]_vars

\* C13 witness: the verdict of a second capture is about to be reported,
\* after the first one's.
C13_Witness ==
    /\ pc = "report"
    /\ cycle = 2
    /\ Len(printed) = 1
    /\ Len(window) > 0

TestTerminated == {"done", "test_crashed"}

TestPositions ==
    {"test_capturing", "test_process", "test_report", "killed"}
    \cup TestTerminated

\* C14: single-shot mode makes one capture and never sleeps, and when it
\* terminates (not killed by an interrupt) it has classified the frame and
\* printed exactly one verdict.
C14_SingleShotOneVerdict ==
    /\ pc \in TestPositions
       => (cycle = 1 /\ sleep_time = 0 /\ Len(printed) <= 1)
    /\ pc \in TestTerminated
       => ("detect_presence" \in events /\ Len(printed) = 1)

C20_AnalysisIffFlagged ==
    pc \in {"report", "crashed"}
    => LET flagged == verdict.presence \/ verdict.breathing
       IN  /\ "extract_breathing_signal" \in events <=> flagged
           /\ "estimate_breathing_rate" \in events <=> flagged
           /\ ~flagged => /\ "filtfilt" \notin events
                          /\ verdict.breathing_rate = Zero

\* C19: presence_threshold (0.15) and breathing_threshold (0.05) have their
\* constructor values in every state of the continuous loop: no operation
\* of a cycle (classification, extraction, rate estimation) changes them.
C19_ThresholdsFixed ==
    /\ presence_threshold = Rat(3, 20)
    /\ breathing_threshold = Rat(1, 20)

\* C19 witness: a later cycle has run the classifier, the extractor and the
\* estimator, and the thresholds are the constructor's.
C19_Witness ==
    /\ cycle > 1
    /\ pc = "report"
    /\ {"detect_presence", "extract_breathing_signal",
        "estimate_breathing_rate"} \subseteq events
    /\ presence_threshold = Rat(3, 20)
    /\ breathing_threshold = Rat(1, 20)

---------------------------------------------------------------------------
(* Direct calls of the operations, on frames and signals of bounded size. *)
(* The operations on a frame may be called again and again, in any order,  *)
(* on the same detector and the same frame.                                *)

\* The breathing signal of n samples that repeats the pattern pat
Periodic(pat, n) == Signal([i \in 1..n |-> pat[((i - 1) % Len(pat)) + 1]])

Frames == {Alternating(r1, r2, n) : r1 \in Rows, r2 \in Rows, n \in 0..MaxSamples}

\* The breathing signal of n samples with unit pulses at the positions P
Pulses(P, n) == Signal([i \in 1..n |-> IF i \in P THEN 1 ELSE 0])

Signals ==
    {Periodic(pat, n) : pat \in [1..MaxPeriod -> {0, 1, 2}], n \in 0..MaxSignalLen}
    \cup {Pulses(P, MaxSignalLen) :
             P \in {Q \in SUBSET (1..MaxSignalLen) : Cardinality(Q) <= MaxPulses}}
    \cup {NaNSignal(n) : n \in 1..MaxSignalLen}

Inputs ==
    {[kind |-> "frame", csi |-> f, sig |-> EmptySignal] : f \in Frames}
    \cup {[kind |-> "signal", csi |-> <<>>, sig |-> g] : g \in Signals}

ControllerOff ==
    /\ pc = "off"
    /\ capture_duration = 0
    /\ interval = 0
    /\ cycle = 0
    /\ elapsed = 0
    /\ scene = <<>>
    /\ csi_data = <<>>
    /\ window = <<>>
    /\ verdict = NoVerdict
    /\ events = {}
    /\ printed = <<>>
    /\ sleep_time = 0
    /\ interrupts = 0
    /\ interrupted = FALSE

InitApi ==
    /\ ControllerOff
    /\ InitThresholds
    /\ response \in Responses
    /\ input \in Inputs
    /\ call = "none"
    /\ result = [none |-> TRUE]
    /\ extracted = <<>>
    /\ NoFiles

CallDetectPresence ==
    /\ input.kind = "frame"
    /\ call' = "detect_presence"
    /\ result' = detect_presence(input.csi)
    /\ UNCHANGED <<ctlVars, fileVars, response, input, extracted>>
    /\ ThresholdsUnchanged

CallExtractBreathingSignal ==
    /\ input.kind = "frame"
    /\ Len(extracted) < MaxExtractions
    /\ call' = "extract_breathing_signal"
    /\ result' = extract_breathing_signal(input.csi)
    /\ extracted' = Append(extracted, result')
    /\ UNCHANGED <<ctlVars, fileVars, response, input>>
    /\ ThresholdsUnchanged

CallExtractBreathingFeatures ==
    /\ input.kind = "frame"
    /\ call' = "extract_breathing_features"
    /\ result' = extract_breathing_features(input.csi)
    /\ UNCHANGED <<ctlVars, fileVars, response, input, extracted>>
    /\ ThresholdsUnchanged

CallEstimateBreathingRate ==
    /\ call = "none" /\ input.kind = "signal"
    /\ call' = "estimate_breathing_rate"
    /\ result' = estimate_breathing_rate(input.sig)
    /\ UNCHANGED <<ctlVars, fileVars, response, input, extracted>>
    /\ ThresholdsUnchanged

NextApi ==
    \/ CallDetectPresence
    \/ CallExtractBreathingSignal
    \/ CallExtractBreathingFeatures
    \/ CallEstimateBreathingRate

SpecApi == InitApi /\ [][NextApi]_vars

---------------------------------------------------------------------------
(* Claims about the operations, checked under SpecApi *)

Extractors == {"extract_breathing_signal", "extract_breathing_features"}

\* The variance score as the claims define it: for each subcarrier the mean
\* of the squares minus the square of the mean, averaged over subcarriers.
ScoreByDefinition(csi) ==
    LET n == Len(csi)
        m == NumSubcarriers(csi)
    IN  Rat(Sum([j \in 1..m |-> n * SumSq(Column(csi, j))
                                - Sum(Column(csi, j)) * Sum(Column(csi, j))]),
            n * n * m * AmpScale * AmpScale)

\* C4: the breathing flag is True exactly when presence is False and the
\* band-limited signal has at least one peak and an in-band variance above
\* breathing_threshold.  Stated on the frames whose band-limited signal is
\* known exactly: long enough to be filtered, with a constant mean signal,
\* so that the band-limited signal is all zeros.
C4_BreathingDecidedOnBandLimitedSignal ==
    (/\ call = "detect_presence"
     /\ Len(input.csi) > PadLen
     /\ StdIsZero(RowSums(input.csi)))
    => LET f == extract_breathing_features(input.csi)
       IN  result.breathing <=>
              (/\ ~result.presence
               /\ f.num_peaks > 0
               /\ RatGt(f.variance, breathing_threshold))

\* C5: on a non-empty frame presence is True iff the variance score (the
\* mean over subcarriers of each subcarrier's variance) is strictly greater
\* than presence_threshold; a score equal to the threshold gives False.
C5_PresenceIffScoreAboveThreshold ==
    (call = "detect_presence" /\ Len(input.csi) > 0)
    => /\ RatEq(result.variance, ScoreByDefinition(input.csi))
       /\ result.presence <=>
             RatGt(ScoreByDefinition(input.csi), presence_threshold)
       /\ RatEq(ScoreByDefinition(input.csi), presence_threshold)
             => ~result.presence

\* C5 witness: a non-empty frame whose score is exactly presence_threshold
\* was classified, and presence came out False.
C5_Witness ==
    /\ call = "detect_presence"
    /\ Len(input.csi) > 0
    /\ RatEq(ScoreByDefinition(input.csi), presence_threshold)
    /\ ~result.presence

\* C7: on a non-empty frame shorter than the minimum sample count (15 for
\* the 4th-order filter) the extractor returns a value: it neither runs the
\* filter nor raises.
C7_ShortFrameNotFiltered ==
    (call \in Extractors /\ Len(input.csi) > 0 /\ Len(input.csi) < 15)
    => (~result.raised /\ "filtfilt" \notin result.events)

\* C8: when the subcarrier-averaged series has zero standard deviation, the
\* extractor (on either path) never divides by that zero.
C8_NoDivisionByZeroStd ==
    (call \in Extractors /\ Len(input.csi) > 0 /\ StdIsZero(RowSums(input.csi)))
    => "divide_by_zero" \notin result.events

\* C9: for a signal of at least 10 samples the rate is 0.0 with fewer than
\* 2 detected peaks, and otherwise 60*fs*(k-1)/(pk-p1) with fs = 20, for
\* the detected peaks p1 < ... < pk.
C9_RateIsSixtyOverMeanInterval ==
    (call = "estimate_breathing_rate" /\ Len(input.sig.x) >= 10)
    => LET p == find_peaks(input.sig, PeakDistance)
           k == Len(p)
       IN  /\ k < 2 => result.bpm = Zero
           /\ k >= 2 => RatEq(result.bpm, Rat(60 * 20 * (k - 1), p[k] - p[1]))

\* C9 witness: a rate was computed from three or more peaks whose
\* inter-peak intervals differ.
C9_Witness ==
    /\ call = "estimate_breathing_rate"
    /\ Len(input.sig.x) >= 10
    /\ LET p == find_peaks(input.sig, PeakDistance)
       IN  /\ Len(p) >= 3
           /\ p[2] - p[1] # p[3] - p[2]
    /\ result.bpm # Zero

\* C10: a signal of fewer than 10 samples, whatever its content, gets the
\* rate 0.0 and no peak detection.
C10_ShortSignalRateZero ==
    (call = "estimate_breathing_rate" /\ Len(input.sig.x) < 10)
    => (result.bpm = Zero /\ "find_peaks" \notin result.events)

\* C10 witness: a short signal on which peak detection would have found two
\* peaks, and so a non-zero rate.
C10_Witness ==
    /\ call = "estimate_breathing_rate"
    /\ Len(input.sig.x) < 10
    /\ Len(find_peaks(input.sig, PeakDistance)) >= 2
    /\ result.bpm = Zero

\* C11: the peaks the rate estimator uses are at least 0.5*fs = 10 samples
\* apart, and the BPM it returns is at most 120.
C11_RateAtMost120 ==
    call = "estimate_breathing_rate"
    => /\ "find_peaks" \in result.events
          => LET p == find_peaks(input.sig, PeakDistance)
             IN  \A i \in 1..(Len(p) - 1) :
                    2 * (p[i + 1] - p[i]) >= SamplingRate
       /\ ~RatGt(result.bpm, Rat(120, 1))

\* The values presence_threshold is compared at
Thresholds == {Rat(1, 20), Rat(1, 10), Rat(3, 20), Rat(1, 4)}

\* C17: for a fixed frame and thresholds t1 <= t2 (all else equal), presence
\* under t2 implies presence under t1.
C17_PresenceMonotoneInThreshold ==
    call = "detect_presence"
    => /\ result = Classify(input.csi, presence_threshold, breathing_threshold)
       /\ \A t1, t2 \in Thresholds :
             (~RatGt(t1, t2)
              /\ Classify(input.csi, t2, breathing_threshold).presence)
             => Classify(input.csi, t1, breathing_threshold).presence

\* C17 witness: a classified frame with presence under a lower threshold
\* and none under a higher one.
C17_Witness ==
    /\ call = "detect_presence"
    /\ \E t1, t2 \in Thresholds :
          /\ RatLt(t1, t2)
          /\ Classify(input.csi, t1, breathing_threshold).presence
          /\ ~Classify(input.csi, t2, breathing_threshold).presence

C21_FlagsExclusive ==
    call = "detect_presence"
    => /\ ~(result.presence /\ result.breathing)
       /\ Status(result) = "motion" <=> result.presence
       /\ Status(result) = "breathing" <=> result.breathing
       /\ Status(result) = "no presence"
             <=> (~result.presence /\ ~result.breathing)
       /\ (Len(input.csi) > 0
           /\ RatEq(ScoreByDefinition(input.csi), presence_threshold))
          => (~result.presence /\ ~result.breathing)

\* C21 witness: a frame whose score equals presence_threshold was
\* classified with neither flag, and its status is no presence.
C21_Witness ==
    /\ call = "detect_presence"
    /\ Len(input.csi) > 0
    /\ RatEq(result.variance, presence_threshold)
    /\ ~result.presence /\ ~result.breathing
    /\ Status(result) = "no presence"

---------------------------------------------------------------------------
(* CSICapture: capture_csi, save_csi_data and load_csi_data, called in any *)
(* order on one CSICapture, with files that may exist beforehand           *)

\* The frames capture_csi returns here
FileFrames ==
    {Alternating(sc[1], sc[2], n) : sc \in Scenes, n \in 0..MaxFileSamples}

\* An array left in a file by an earlier run
StaleFrame == <<<<AmpHigh, AmpLow>>>>

\* np.save(filename, ...) appends ".npy" to a name that does not end in it
NpySuffixed(path) == IF path = "csi" THEN "csi.npy" ELSE path

\* bool(self.csi_data).  A list is true iff it is non-empty.  A numpy array
\* of more than one element raises ValueError; an array of one element has
\* that element's truth (an amplitude: non-zero); the truth of an array of
\* no element is False or raises, depending on the numpy version.
Truths(buf, arr) ==
    IF ~arr THEN IF Len(buf) > 0 THEN {"true"} ELSE {"false"}
    ELSE IF Len(buf) = 0 THEN {"false", "raises"}
    ELSE IF Len(buf) * NumSubcarriers(buf) > 1 THEN {"raises"}
    ELSE {"true"}

InitFile ==
    /\ ControllerOff
    /\ InitThresholds
    /\ response \in Responses
    /\ input = NoInput
    /\ call = "none"
    /\ result = [none |-> TRUE]
    /\ extracted = <<>>
    /\ is_array = FALSE
    /\ disk \in [Paths -> {Absent, EmptyFile, ArrayFile(StaleFrame),
                           ArrayFile(<<>>)}]

\* capture_csi lines 28-46 as one step: the buffer is reset, filled with
\* the packets that arrive, and returned as an array.
FileCapture ==
    /\ \E frame \in FileFrames :
          /\ csi_data' = frame
          /\ window' = frame
          /\ result' = [raised |-> FALSE, value |-> frame]
    /\ is_array' = FALSE
    /\ call' = "capture_csi"
    /\ UNCHANGED <<pc, capture_duration, interval, cycle, elapsed, scene,
                   verdict, events, printed, sleep_time, interrupts,
                   interrupted, response, input, extracted, disk>>
    /\ ThresholdsUnchanged

\* save_csi_data lines 64-68.  fresh says that the call directly follows a
\* capture_csi call.
FileSave ==
    /\ \E path \in Paths, truth \in Truths(csi_data, is_array) :
          /\ disk' = IF truth = "true"
                     THEN [disk EXCEPT ![NpySuffixed(path)] = ArrayFile(csi_data)]
                     ELSE disk
          /\ result' = [raised |-> truth = "raises",
                        saved  |-> truth = "true",
                        path   |-> path,
                        fresh  |-> call = "capture_csi"]
    /\ call' = "save_csi_data"
    /\ UNCHANGED <<ctlVars, response, input, extracted, is_array>>
    /\ ThresholdsUnchanged

\* load_csi_data lines 72-74: np.load raises on a missing file and on a
\* file of zero bytes, before self.csi_data is assigned.  round_trip says
\* that the call directly follows a save to the same name that directly
\* followed a capture.
FileLoad ==
    /\ \E path \in Paths :
          LET file == disk[path]
              rt   == call = "save_csi_data" /\ result.fresh /\ result.path = path
          IN  IF file.kind = "array"
              THEN /\ csi_data' = file.data
                   /\ is_array' = TRUE
                   /\ result' = [raised |-> FALSE, value |-> file.data,
                                 path |-> path, round_trip |-> rt]
              ELSE /\ result' = [raised |-> TRUE, value |-> <<>>,
                                 path |-> path, round_trip |-> rt]
                   /\ UNCHANGED <<csi_data, is_array>>
    /\ call' = "load_csi_data"
    /\ UNCHANGED <<pc, capture_duration, interval, cycle, elapsed, scene,
                   window, verdict, events, printed, sleep_time, interrupts,
                   interrupted, response, input, extracted, disk>>
    /\ ThresholdsUnchanged

NextFile ==
    \/ FileCapture
    \/ FileSave
    \/ FileLoad

SpecFile == InitFile /\ [][NextFile]_vars

---------------------------------------------------------------------------
(* Claims about saving and loading, checked under SpecFile *)

\* C16: a frame returned by capture_csi (an empty one included), saved to a
\* file and loaded back from that file, comes back equal element for
\* element.
C16_SaveLoadRoundTrip ==
    (call = "load_csi_data" /\ result.round_trip)
    => (~result.raised /\ result.value = window)

\* C22: after any sequence of capture_csi and load_csi_data calls,
\* save_csi_data does not raise: it writes the buffer when the buffer holds
\* at least one sample, and otherwise writes nothing.  Stated apart from a
\* loaded array of no element, whose truth value depends on the numpy
\* version.
C22_SaveNeverRaises ==
    (call = "save_csi_data" /\ ~(is_array /\ Len(csi_data) = 0))
    => /\ ~result.raised
       /\ result.saved <=> Len(csi_data) > 0
       /\ result.saved
          => disk[NpySuffixed(result.path)] = ArrayFile(csi_data)

=============================================================================
